---- MODULE Spec2Model ----
(***************************************************************************)
(* The Equinix Metal docker-machine driver (pkg/drivers/metal/metal.go):   *)
(* the Driver record, SetConfigFromFlags, PreCreateCheck, the Create flow  *)
(* with its two polling loops and the lifecycle operations, run against a  *)
(* provider whose answers are inputs of each call.                         *)
(*                                                                         *)
(* The driver is single-threaded and is driven by the docker-machine host  *)
(* in a fixed order: SetConfigFromFlags, PreCreateCheck, Create (only when *)
(* PreCreateCheck returned nil), and then the lifecycle operations.        *)
(***************************************************************************)
EXTENDS Integers, Sequences, FiniteSets

VARIABLES
    d,              \* the Driver record (the fields the operations read or write)
    pc,             \* position of the driver: between operations or inside Create
    newDevice,      \* Create's local newDevice / GetState's local device
    devState,       \* the provider's state of the device ("none": no device)
    hist,           \* calls and observations of the current operation, in order
    gets,           \* Devices.Get calls of the current operation (counted up to MaxPolls)
    slept,          \* length in seconds of Create's last time.Sleep (0: none yet)
    catalog,        \* the provider's operating systems, metros and facilities
    env,            \* what SetConfigFromFlags reads: flags, config file, clock
    fileCalls,      \* os.Stat / ioutil.ReadFile on the user-data file by the current operation
    createRequest,  \* the DeviceCreateRequest last submitted
    ret             \* what the last finished operation returned

vars == <<d, pc, newDevice, devState, hist, gets, slept, catalog, env, fileCalls, createRequest, ret>>

----------------------------------------------------------------------------
(* Bounds *)

\* Devices.Get calls are counted up to this number; the loops are not bounded.
MaxPolls == 3

----------------------------------------------------------------------------
(* Program constants *)

defaultMetro == "dc"
StatusForbidden == 403
StatusNotFound == 404
IPSleepSeconds == 1
ProvSleepSeconds == 10

supportedDistros == <<"centos", "coreos", "debian", "opensuse", "rancher", "ubuntu">>

----------------------------------------------------------------------------
(* Errors.  A Go error is nil, a *packngo.ErrorResponse (with or without   *)
(* an HTTP response) or any other error; call names the call it came from. *)

Nil == [kind |-> "nil", hasResp |-> FALSE, code |-> 0, call |-> ""]

ErrorResponse(call, code) ==
    [kind |-> "ErrorResponse", hasResp |-> TRUE, code |-> code, call |-> call]

ErrorResponseNoHTTP(call) ==
    [kind |-> "ErrorResponse", hasResp |-> FALSE, code |-> 0, call |-> call]

PlainError(call) == [kind |-> "error", hasResp |-> FALSE, code |-> 0, call |-> call]

StatusCodes == {StatusForbidden, StatusNotFound, 500}

\* What a provider call can answer besides success.
Failures(call) ==
    {ErrorResponse(call, c) : c \in StatusCodes}
        \cup {ErrorResponseNoHTTP(call), PlainError(call)}

Outcomes(call) == {Nil} \cup Failures(call)

\* A local (non-provider) step either works or fails with a plain error.
LocalOutcomes(call) == {Nil, PlainError(call)}

----------------------------------------------------------------------------
(* Inputs: configuration values and provider answers *)

FacilityCodes == {"", "any", "ewr1", "zz9"}
MetroCodes == {"", "sv", "zz"}
OperatingSystems == {"ubuntu_20_04", "windows_2019"}
UserDataFiles == {"", "cloud-init.yml"}

OSAnswers ==
    { <<[Slug |-> "ubuntu_20_04", Distro |-> "ubuntu"],
        [Slug |-> "windows_2019", Distro |-> "windows"]>>,
      <<[Slug |-> "windows_2019", Distro |-> "windows"]>> }

MetroAnswers == { <<"sv", "dc">>, <<"sv">> }
FacilityAnswers == { <<"ewr1">>, << >> }

\* os.Stat on the user-data file
StatOutcomes == {"ok", "notexist", "denied"}

DeviceStates ==
    {"queued", "provisioning", "active", "failed",
     "powering_on", "powering_off", "inactive", "deprovisioning"}

\* The provider's device lifecycle while a device is being provisioned:
\* "active" and "failed" are where it settles.
DevSucc(s) ==
    CASE s = "queued" -> {"queued", "provisioning"}
      [] s = "provisioning" -> {"provisioning", "active", "failed"}
      [] OTHER -> {s}

TerminalStates == {"active", "failed"}

Pub4(a) == [Public |-> TRUE, AddressFamily |-> 4, Address |-> a]
Pub6(a) == [Public |-> TRUE, AddressFamily |-> 6, Address |-> a]
Priv4(a) == [Public |-> FALSE, AddressFamily |-> 4, Address |-> a]

NetworkAnswers ==
    { << >>,
      <<Priv4("10.0.0.1")>>,
      <<Pub6("2604::1"), Priv4("10.0.0.1")>>,
      <<Pub4("147.75.0.1"), Pub6("2604::1"), Priv4("10.0.0.1")>>,
      <<Pub4("147.75.0.1"), Pub4("147.75.0.2")>> }

NoDevice == [ID |-> "", State |-> "", Network |-> << >>]

NoTime == [isNil |-> TRUE, unix |-> 0]

NoRequest == [submitted |-> FALSE, Facility |-> << >>, Metro |-> "",
              OS |-> "", Plan |-> "", HardwareReservationID |-> "",
              BillingCycle |-> "", ProjectID |-> "", SpotInstance |-> FALSE,
              SpotPriceMax |-> 0, TerminationTime |-> NoTime, UserData |-> ""]

NoReturn == [op |-> "", err |-> Nil, val |-> ""]

Event(ev, arg, err) == [ev |-> ev, arg |-> arg, err |-> err]

\* A call on the local file system and how it came out.
FileCall(call, path, outcome) == [call |-> call, path |-> path, outcome |-> outcome]

Return(op, err, val) == [op |-> op, err |-> err, val |-> val]

Min(a, b) == IF a < b THEN a ELSE b

----------------------------------------------------------------------------
(* Helpers of metal.go *)

stringInSlice(a, list) == \E i \in 1..Len(list) : list[i] = a

\* ignoreStatusCodes without the comparison of the status code.
ignoreStatusCodes_AnyCode(err, codes) ==
    IF err.kind # "ErrorResponse" \/ ~err.hasResp THEN err ELSE Nil

\* ignoreStatusCodes that ignores nothing.
ignoreStatusCodes_NothingIgnored(err, codes) == err

\* ignoreStatusCodes without the test for a missing HTTP response.
ignoreStatusCodes_NoResponseTest(err, codes) ==
    IF err.kind # "ErrorResponse"
    THEN err
    ELSE IF err.code \in codes THEN Nil ELSE err

\* ignoreStatusCodes(err, codes...): nil for a provider error response whose
\* HTTP status is one of codes, err itself otherwise.
ignoreStatusCodes(err, codes) ==
    IF err.kind # "ErrorResponse" \/ ~err.hasResp
    THEN err
    ELSE IF err.code \in codes THEN Nil ELSE err

\* getOsFlavors without the filter on the distro.
getOsFlavors_NoFilter(listErr, operatingSystems) ==
    IF listErr # Nil
    THEN [err |-> listErr, flavors |-> << >>]
    ELSE [err |-> Nil,
          flavors |-> [i \in 1..Len(operatingSystems) |-> operatingSystems[i].Slug]]

\* getOsFlavors: the slugs of the listed operating systems of a supported distro.
getOsFlavors(listErr, operatingSystems) ==
    IF listErr # Nil
    THEN [err |-> listErr, flavors |-> << >>]
    ELSE LET kept == SelectSeq(operatingSystems,
                         LAMBDA flavor : stringInSlice(flavor.Distro, supportedDistros))
         IN  [err |-> Nil, flavors |-> [i \in 1..Len(kept) |-> kept[i].Slug]]

\* validateFacility without the search of the list.
validateFacility_NoSearch(facility, listErr, facilities) ==
    IF facility = "any" THEN Nil
    ELSE IF listErr # Nil THEN listErr
    ELSE Nil

validateFacility(facility, listErr, facilities) ==
    IF facility = "any" THEN Nil
    ELSE IF listErr # Nil THEN listErr
    ELSE IF \E i \in 1..Len(facilities) : facilities[i] = facility THEN Nil
    ELSE PlainError("requires a valid facility")

validateMetro(metro, listErr, metros) ==
    IF listErr # Nil THEN listErr
    ELSE IF \E i \in 1..Len(metros) : metros[i] = metro THEN Nil
    ELSE PlainError("requires a valid metro")

\* The loop over newDevice.Network stopped at its first public IPv4 entry.
IPAfter_FirstWins(network, ip) ==
    LET hits == {i \in 1..Len(network) :
                    network[i].Public /\ network[i].AddressFamily = 4}
    IN  IF hits = {} THEN ip
        ELSE network[CHOOSE i \in hits : \A j \in hits : i <= j].Address

\* The loop over newDevice.Network in Create: every public IPv4 entry
\* overwrites the address, so the last one stays.
RECURSIVE IPAfter(_, _)
IPAfter(network, ip) ==
    IF network = << >> THEN ip
    ELSE IPAfter(Tail(network),
                 IF Head(network).Public /\ Head(network).AddressFamily = 4
                 THEN Head(network).Address
                 ELSE ip)

HasPublic4(network) ==
    \E i \in 1..Len(network) : network[i].Public /\ network[i].AddressFamily = 4

\* The contents ioutil.ReadFile gives for the user-data file.
FileContents(path) == IF path = "" THEN "" ELSE "#cloud-config"

----------------------------------------------------------------------------
(* Flags.  argPrefix(f) is driverName followed by the suffix f.            *)

argAuthToken == "metal-auth-token"
argApiKey == "metal-api-key"
argProjectID == "metal-project-id"
argOS == "metal-os"
argFacilityCode == "metal-facility-code"
argMetroCode == "metal-metro-code"
argPlan == "metal-plan"
argHwId == "metal-hw-reservation-id"
argBillingCycle == "metal-billing-cycle"
argUserdata == "metal-userdata"
argSpotInstance == "metal-spot-instance"
argSpotPriceMax == "metal-spot-price-max"
argTerminationTime == "metal-termination-time"
argUAPrefix == "metal-ua-prefix"

defaultOS == "ubuntu_20_04"

StringFlag(name, value) == [Name |-> name, Kind |-> "string", Value |-> value]
BoolFlag(name) == [Name |-> name, Kind |-> "bool", Value |-> ""]

\* The declared flags without the spot price flag.
GetCreateFlags_NoSpotPriceMax ==
    << StringFlag(argAuthToken, ""),
       StringFlag(argApiKey, ""),
       StringFlag(argProjectID, ""),
       StringFlag(argOS, defaultOS),
       StringFlag(argFacilityCode, ""),
       StringFlag(argMetroCode, ""),
       StringFlag(argPlan, "c3.small.x86"),
       StringFlag(argHwId, ""),
       StringFlag(argBillingCycle, "hourly"),
       StringFlag(argUserdata, ""),
       BoolFlag(argSpotInstance),
       StringFlag(argTerminationTime, ""),
       StringFlag(argUAPrefix, "") >>

GetCreateFlags ==
    << StringFlag(argAuthToken, ""),
       StringFlag(argApiKey, ""),
       StringFlag(argProjectID, ""),
       StringFlag(argOS, defaultOS),
       StringFlag(argFacilityCode, ""),
       StringFlag(argMetroCode, ""),
       StringFlag(argPlan, "c3.small.x86"),
       StringFlag(argHwId, ""),
       StringFlag(argBillingCycle, "hourly"),
       StringFlag(argUserdata, ""),
       BoolFlag(argSpotInstance),
       StringFlag(argSpotPriceMax, ""),
       StringFlag(argTerminationTime, ""),
       StringFlag(argUAPrefix, "") >>

FlagNames == {GetCreateFlags[i].Name : i \in 1..Len(GetCreateFlags)}

Declared(name, kind) ==
    \E i \in 1..Len(GetCreateFlags) :
        GetCreateFlags[i].Name = name /\ GetCreateFlags[i].Kind = kind

FlagDefault(name) ==
    LET i == CHOOSE j \in 1..Len(GetCreateFlags) : GetCreateFlags[j].Name = name
    IN  GetCreateFlags[i].Value

\* flags.String(name) of the host's DriverOptions: the value the user gave by
\* flag or environment, the declared default when the user gave none, and ""
\* for a name that is no declared string flag.  given[name] = "" stands for
\* "not given".
FlagsString(given, name) ==
    IF ~Declared(name, "string") THEN ""
    ELSE IF given[name] # "" THEN given[name]
    ELSE FlagDefault(name)

\* flags.Bool(name)
FlagsBool(given, name) == Declared(name, "bool") /\ given[name] = "true"

\* What the user gave, as a function of the flag names.
Given(os, token, key, project, metro, facility, plan, userdata, spot, price, time) ==
    [n \in FlagNames |->
        CASE n = argOS -> os
          [] n = argAuthToken -> token
          [] n = argApiKey -> key
          [] n = argProjectID -> project
          [] n = argMetroCode -> metro
          [] n = argFacilityCode -> facility
          [] n = argPlan -> plan
          [] n = argUserdata -> userdata
          [] n = argSpotInstance -> spot
          [] n = argSpotPriceMax -> price
          [] n = argTerminationTime -> time
          [] OTHER -> ""]

----------------------------------------------------------------------------
(* Parsers and string tests, as tables over the texts the model uses *)

\* strings.Contains(s, sub)
Contains(s, sub) ==
    \/ sub = "coreos" /\ s \in {"coreos_stable", "rancher_coreos"}
    \/ sub = "rancher" /\ s \in {"rancher", "rancher_coreos"}

\* strconv.ParseFloat(text, 64)
ParseFloat(text) ==
    CASE text = "2" -> [ok |-> TRUE, val |-> 2]
      [] text = "0" -> [ok |-> TRUE, val |-> 0]
      [] OTHER -> [ok |-> FALSE, val |-> 0]

\* strtotime.Parse(text, now): Unix seconds; a relative text counts from now.
strtotimeParse(text, now) ==
    CASE text = "1970-01-01 00:00:10" -> [ok |-> TRUE, val |-> 10]
      [] text = "1970-01-01 00:00:11" -> [ok |-> TRUE, val |-> 11]
      [] text = "1970-01-01 00:00:12" -> [ok |-> TRUE, val |-> 12]
      [] text = "+1 second" -> [ok |-> TRUE, val |-> now + 1]
      [] OTHER -> [ok |-> FALSE, val |-> 0]

Timestamp(unix) == [isNil |-> FALSE, unix |-> unix]

----------------------------------------------------------------------------
(* The config file and the inputs of SetConfigFromFlags *)

NoConfig == [Token |-> "", AuthToken |-> "", Facility |-> "", Metro |-> "",
             OS |-> "", Plan |-> "", ProjectID |-> ""]

MissingFile == [state |-> "missing", config |-> NoConfig]

\* A file that exists: unreadable, not YAML (with nothing decoded, or with its
\* first keys decoded before the error), or parsed into config.
ConfigFiles ==
    { [state |-> "unreadable", config |-> NoConfig],
      [state |-> "malformed", config |-> NoConfig],
      [state |-> "malformed",
       config |-> [NoConfig EXCEPT !.Token = "file-token",
                                   !.ProjectID = "file-project"]] }
    \cup
    { [state |-> "ok",
       config |-> [Token |-> t, AuthToken |-> a, Facility |-> r.Facility,
                   Metro |-> r.Metro, OS |-> r.OS, Plan |-> r.Plan,
                   ProjectID |-> r.ProjectID]] :
        t \in {"", "file-token"}, a \in {"", "file-auth-token"},
        r \in { NoConfig,
                [NoConfig EXCEPT !.Facility = "am6", !.Metro = "am", !.OS = "debian_10",
                                 !.Plan = "m3.large.x86", !.ProjectID = "file-project"] } }

TimeTexts ==
    {"", "tomorrowish", "1970-01-01 00:00:10", "1970-01-01 00:00:11",
     "1970-01-01 00:00:12", "+1 second"}

PriceTexts == {"", "2", "cheap"}

\* The clock: time.Now().Unix() at the call of strtotime.Parse (now1) and at
\* the comparison (now2), which is not earlier.
Clocks == { [now1 |-> 10, now2 |-> 10], [now1 |-> 10, now2 |-> 11] }

Env(given, file, clock) ==
    [given |-> given, file |-> file, now1 |-> clock.now1, now2 |-> clock.now2]

\* The inputs of the whole flow: token and project given by flag, no config
\* file, no spot instance; location, operating system and user data vary.
FlowEnvs ==
    { Env(Given(os, "flag-token", "", "flag-project", metro, facility, "", userdata,
                "", "", ""),
          MissingFile, [now1 |-> 10, now2 |-> 10]) :
        os \in OperatingSystems, metro \in MetroCodes, facility \in FacilityCodes,
        userdata \in UserDataFiles }

\* The inputs of SetConfigFromFlags taken alone: every source of a setting
\* without a spot instance, and every spot setting under either clock.
SettingEnvs ==
    { Env(Given(os, token, key, project, metro, "", plan, "", "", sp[1], sp[2]),
          file, [now1 |-> 10, now2 |-> 10]) :
        os \in {"", "coreos_stable", "rancher", "rancher_coreos"},
        token \in {"", "flag-token"},
        key \in {"", "flag-key"},
        project \in {"", "flag-project"},
        metro \in {"", "sv"},
        plan \in {"", "c3.medium.x86"},
        sp \in {<<"", "">>, <<"cheap", "1970-01-01 00:00:10">>},
        file \in {MissingFile} \cup ConfigFiles }

SpotEnvs ==
    { Env(Given("", token, "", project, "", "ewr1", "", "cloud-init.yml", "true",
                price, time),
          file, clock) :
        token \in {"", "flag-token"},
        project \in {"", "flag-project"},
        price \in PriceTexts,
        time \in TimeTexts,
        file \in {MissingFile, [state |-> "malformed", config |-> NoConfig]},
        clock \in Clocks }

ConfigEnvs == SettingEnvs \cup SpotEnvs

----------------------------------------------------------------------------
(* Init: the record NewDriver builds; no remote resource yet *)

NewDriver ==
    [ApiKey |-> "", ProjectID |-> "", Plan |-> "", HardwareReserverationID |-> "",
     Facility |-> "", Metro |-> "", OperatingSystem |-> "", BillingCycle |-> "",
     DeviceID |-> "", SSHKeyID |-> "", UserDataFile |-> "", UserAgentPrefix |-> "",
     SpotInstance |-> FALSE, SpotPriceMax |-> 0, TerminationTime |-> NoTime,
     IPAddress |-> "", SSHUser |-> ""]

InitWith(envs, catalogs) ==
    /\ d = NewDriver
    /\ pc = "new"
    /\ newDevice = NoDevice
    /\ devState = "none"
    /\ hist = << >>
    /\ gets = 0
    /\ slept = 0
    /\ catalog \in catalogs
    /\ env \in envs
    /\ fileCalls = << >>
    /\ createRequest = NoRequest
    /\ ret = NoReturn

Init ==
    InitWith(FlowEnvs,
             [os : OSAnswers, metros : MetroAnswers, facilities : FacilityAnswers])

ConfigInit ==
    InitWith(ConfigEnvs,
             {[os |-> << >>, metros |-> << >>, facilities |-> << >>]})

----------------------------------------------------------------------------
(* SetConfigFromFlags *)

\* setConfigFromFile that takes a file it cannot parse for a missing one.
setConfigFromFile_ParseErrorDropped(drv, file) ==
    IF file.state \in {"missing", "malformed"} THEN [d |-> drv, err |-> Nil]
    ELSE IF file.state = "unreadable"
    THEN [d |-> drv, err |-> PlainError("ioutil.ReadFile config")]
    ELSE LET config == file.config
         IN  [d |-> [drv EXCEPT
                        !.Plan = config.Plan,
                        !.ApiKey = IF config.Token # "" THEN config.Token
                                   ELSE config.AuthToken,
                        !.Facility = config.Facility,
                        !.Metro = config.Metro,
                        !.OperatingSystem = config.OS,
                        !.ProjectID = config.ProjectID],
              err |-> Nil]

\* setConfigFromFile on record drv: the record it leaves and its error.
setConfigFromFile(drv, file) ==
    IF file.state = "missing" THEN [d |-> drv, err |-> Nil]
    ELSE IF file.state = "unreadable"
    THEN [d |-> drv, err |-> PlainError("ioutil.ReadFile config")]
    ELSE IF file.state = "malformed"
    THEN [d |-> drv, err |-> PlainError("yaml.Unmarshal")]
    ELSE LET config == file.config
         IN  [d |-> [drv EXCEPT
                        !.Plan = config.Plan,
                        !.ApiKey = IF config.Token # "" THEN config.Token
                                   ELSE config.AuthToken,
                        !.Facility = config.Facility,
                        !.Metro = config.Metro,
                        !.OperatingSystem = config.OS,
                        !.ProjectID = config.ProjectID],
              err |-> Nil]

\* Lines 835-846: a flag value that is not empty replaces the setting.
Override(v, old) == IF v # "" THEN v ELSE old

\* The two tests of lines 860-865 in the other order: "coreos" decides last.
SSHUserFor_CoreosWins(os, old) ==
    IF Contains(os, "coreos") THEN "core"
    ELSE IF Contains(os, "rancher") THEN "rancher"
    ELSE old

\* Lines 860-865: "core" for a name with "coreos" in it, then "rancher" for a
\* name with "rancher" in it, which so decides when both are in it.
SSHUserFor(os, old) ==
    IF Contains(os, "rancher") THEN "rancher"
    ELSE IF Contains(os, "coreos") THEN "core"
    ELSE old

\* A time equal to the current time is let through.
InThePast_EqualAllowed(timestamp, now) == timestamp < now

\* Whether line 893 rejects the parsed time.
InThePast(timestamp, now) == timestamp <= now

\* SpotSettings that leaves SpotPriceMax alone when no price limit is given.
SpotSettings_NoDefaultPrice(drv, e) ==
    LET price == FlagsString(e.given, argSpotPriceMax)
        parsed == ParseFloat(price)
        d1 == [drv EXCEPT !.SpotPriceMax = IF price = "" THEN @ ELSE parsed.val]
        text == FlagsString(e.given, argTerminationTime)
        time == strtotimeParse(text, e.now1)
    IN
    IF price # "" /\ ~parsed.ok
    THEN [d |-> drv, err |-> PlainError("strconv.ParseFloat"),
          reads |-> <<argSpotPriceMax>>]
    ELSE IF text = ""
    THEN [d |-> [d1 EXCEPT !.TerminationTime = NoTime], err |-> Nil,
          reads |-> <<argSpotPriceMax, argTerminationTime>>]
    ELSE IF ~time.ok
    THEN [d |-> d1, err |-> PlainError("strtotime.Parse"),
          reads |-> <<argSpotPriceMax, argTerminationTime>>]
    ELSE IF InThePast(time.val, e.now2)
    THEN [d |-> d1, err |-> PlainError("termination time cannot be in the past"),
          reads |-> <<argSpotPriceMax, argTerminationTime>>]
    ELSE [d |-> [d1 EXCEPT !.TerminationTime = Timestamp(time.val)], err |-> Nil,
          reads |-> <<argSpotPriceMax, argTerminationTime>>]

\* Lines 873-898 on record drv with SpotInstance set: the record left, the
\* error, the flags read.
SpotSettings(drv, e) ==
    LET price == FlagsString(e.given, argSpotPriceMax)
        parsed == ParseFloat(price)
        d1 == [drv EXCEPT !.SpotPriceMax = IF price = "" THEN -1 ELSE parsed.val]
        text == FlagsString(e.given, argTerminationTime)
        time == strtotimeParse(text, e.now1)
    IN
    IF price # "" /\ ~parsed.ok
    THEN [d |-> drv, err |-> PlainError("strconv.ParseFloat"),
          reads |-> <<argSpotPriceMax>>]
    ELSE IF text = ""
    THEN [d |-> [d1 EXCEPT !.TerminationTime = NoTime], err |-> Nil,
          reads |-> <<argSpotPriceMax, argTerminationTime>>]
    ELSE IF ~time.ok
    THEN [d |-> d1, err |-> PlainError("strtotime.Parse"),
          reads |-> <<argSpotPriceMax, argTerminationTime>>]
    ELSE IF InThePast(time.val, e.now2)
    THEN [d |-> d1, err |-> PlainError("termination time cannot be in the past"),
          reads |-> <<argSpotPriceMax, argTerminationTime>>]
    ELSE [d |-> [d1 EXCEPT !.TerminationTime = Timestamp(time.val)], err |-> Nil,
          reads |-> <<argSpotPriceMax, argTerminationTime>>]

\* The deprecated API key taken whenever it is given.
FallBackToApiKey_Always(drv, oldApiKey) ==
    IF oldApiKey # "" THEN [drv EXCEPT !.ApiKey = oldApiKey] ELSE drv

\* Lines 850-852: the deprecated API key is taken only when no token is set.
FallBackToApiKey(drv, oldApiKey) ==
    IF drv.ApiKey = "" THEN [drv EXCEPT !.ApiKey = oldApiKey] ELSE drv

\* The flags lines 835-848 read, and those lines 867-870 read.
SettingReads ==
    <<argOS, argAuthToken, argProjectID, argMetroCode, argFacilityCode, argPlan,
      argApiKey>>

PlainReads == <<argBillingCycle, argUAPrefix, argUserdata, argHwId>>

\* The body of SetConfigFromFlags on record drv: the record it leaves, the
\* error it returns, and the flags it read by flags.String and flags.Bool.
SetConfigFromFlagsRun(drv, e) ==
    LET F(n) == FlagsString(e.given, n)
        f == setConfigFromFile(drv, e.file)
    IN
    IF f.err # Nil
    THEN [d |-> f.d, err |-> f.err, strings |-> << >>, bools |-> << >>]
    ELSE
    LET d1 == [f.d EXCEPT
                  !.OperatingSystem = Override(F(argOS), @),
                  !.ApiKey = Override(F(argAuthToken), @),
                  !.ProjectID = Override(F(argProjectID), @),
                  !.Metro = Override(F(argMetroCode), @),
                  !.Facility = Override(F(argFacilityCode), @),
                  !.Plan = Override(F(argPlan), @)]
        oldApiKey == F(argApiKey)
        d2 == FallBackToApiKey(d1, oldApiKey)
    IN
    IF d2.ApiKey = ""
    THEN [d |-> d2, err |-> PlainError("driver requires the auth token option"),
          strings |-> SettingReads, bools |-> << >>]
    ELSE
    LET d3 == [d2 EXCEPT
                  !.SSHUser = SSHUserFor(d2.OperatingSystem, @),
                  !.BillingCycle = F(argBillingCycle),
                  !.UserAgentPrefix = F(argUAPrefix),
                  !.UserDataFile = F(argUserdata),
                  !.HardwareReserverationID = F(argHwId),
                  !.SpotInstance = FlagsBool(e.given, argSpotInstance)]
        sp == IF d3.SpotInstance
              THEN SpotSettings(d3, e)
              ELSE [d |-> d3, err |-> Nil, reads |-> << >>]
        strings == SettingReads \o PlainReads \o sp.reads
    IN
    IF sp.err # Nil
    THEN [d |-> sp.d, err |-> sp.err, strings |-> strings, bools |-> <<argSpotInstance>>]
    ELSE IF sp.d.ProjectID = ""
    THEN [d |-> sp.d, err |-> PlainError("driver requires the project id option"),
          strings |-> strings, bools |-> <<argSpotInstance>>]
    ELSE [d |-> sp.d, err |-> Nil, strings |-> strings, bools |-> <<argSpotInstance>>]

SetConfigFromFlags ==
    /\ pc = "new"
    /\ \E r \in {SetConfigFromFlagsRun(d, env)} :
           /\ d' = r.d
           /\ hist' = [i \in 1..Len(r.strings) |-> Event("flags.String", r.strings[i], Nil)]
                        \o [i \in 1..Len(r.bools) |-> Event("flags.Bool", r.bools[i], Nil)]
           /\ ret' = Return("SetConfigFromFlags", r.err, "")
           /\ pc' = IF r.err = Nil THEN "configured" ELSE "misconfigured"
    /\ gets' = 0
    /\ fileCalls' = << >>
    /\ UNCHANGED <<newDevice, devState, slept, catalog, env, createRequest>>

----------------------------------------------------------------------------
(* PreCreateCheck *)

\* The user-data check that never fails.
UserDataMissing_Never(drv, stat) == FALSE

\* Lines 912-916: a user-data file is named and os.Stat says it does not exist.
UserDataMissing(drv, stat) == drv.UserDataFile # "" /\ stat = "notexist"

\* No default location.
DefaultLocation_None(drv) == drv

\* Lines 926-928: metro "dc" when neither a metro nor a facility is set.
DefaultLocation(drv) ==
    IF drv.Metro = "" /\ drv.Facility = ""
    THEN [drv EXCEPT !.Metro = defaultMetro]
    ELSE drv

\* The body of PreCreateCheck on record drv: the record it leaves, the error
\* it returns and the provider calls it made.
PreCreateCheckRun(drv, stat, osErr, metroErr, facilityErr) ==
    IF UserDataMissing(drv, stat)
    THEN [d |-> drv, err |-> PlainError("user-data file could not be found"),
          hist |-> << >>]
    ELSE
    LET fl == getOsFlavors(osErr, catalog.os)
        h1 == <<Event("OperatingSystems.List", "", osErr)>>
    IN
    IF fl.err # Nil THEN [d |-> drv, err |-> fl.err, hist |-> h1]
    ELSE IF ~stringInSlice(drv.OperatingSystem, fl.flavors)
    THEN [d |-> drv, err |-> PlainError("specified os not one of the flavors"),
          hist |-> h1]
    ELSE
    LET d1 == DefaultLocation(drv)
    IN
    IF d1.Metro # "" /\ d1.Facility # ""
    THEN [d |-> d1, err |-> PlainError("facility and metro can not be used together"),
          hist |-> h1]
    ELSE IF d1.Metro # ""
    THEN [d |-> d1, err |-> validateMetro(d1.Metro, metroErr, catalog.metros),
          hist |-> h1 \o <<Event("Metros.List", "", metroErr)>>]
    ELSE [d |-> d1, err |-> validateFacility(d1.Facility, facilityErr, catalog.facilities),
          hist |-> IF d1.Facility = "any"
                   THEN h1
                   ELSE h1 \o <<Event("Facilities.List", "", facilityErr)>>]

PreCreateCheck ==
    /\ pc = "configured"
    /\ \E stat \in StatOutcomes,
          osErr \in Outcomes("OperatingSystems.List"),
          metroErr \in Outcomes("Metros.List"),
          facilityErr \in Outcomes("Facilities.List") :
            LET r == PreCreateCheckRun(d, stat, osErr, metroErr, facilityErr)
            IN  /\ d' = r.d
                /\ hist' = r.hist
                /\ ret' = Return("PreCreateCheck", r.err, "")
                /\ pc' = IF r.err = Nil THEN "checked" ELSE "rejected"
                /\ fileCalls' = IF d.UserDataFile # ""
                                THEN <<FileCall("os.Stat", d.UserDataFile, stat)>>
                                ELSE << >>
    /\ gets' = 0
    /\ UNCHANGED <<newDevice, devState, slept, catalog, env, createRequest>>

----------------------------------------------------------------------------
(* Create *)

\* The key's ID is not stored.
StoreKeyID_Dropped(drv, id) == drv

\* Line 960: d.SSHKeyID = key.ID
StoreKeyID(drv, id) == [drv EXCEPT !.SSHKeyID = id]

\* Lines 943-960: read the user-data file, generate the key pair, read the
\* public key, register it; SSHKeyID is stored only when all of it worked.
CreateStart ==
    /\ pc = "checked"
    /\ \E readErr \in LocalOutcomes("ReadFile user-data"),
          genErr \in LocalOutcomes("GenerateSSHKey"),
          pubErr \in LocalOutcomes("ReadFile public key"),
          keyErr \in Outcomes("SSHKeys.Create") :
        /\ fileCalls' = IF d.UserDataFile # ""
                        THEN <<FileCall("ioutil.ReadFile", d.UserDataFile,
                                        IF readErr = Nil THEN "ok" ELSE "failed")>>
                        ELSE << >>
        /\ IF d.UserDataFile # "" /\ readErr # Nil
            THEN /\ hist' = << >>
                 /\ ret' = Return("Create", readErr, "")
                 /\ pc' = "ready"
                 /\ d' = d
            ELSE IF genErr # Nil
            THEN /\ hist' = <<Event("GenerateSSHKey", "", genErr)>>
                 /\ ret' = Return("Create", genErr, "")
                 /\ pc' = "ready"
                 /\ d' = d
            ELSE IF pubErr # Nil
            THEN /\ hist' = <<Event("GenerateSSHKey", "", Nil)>>
                 /\ ret' = Return("Create", pubErr, "")
                 /\ pc' = "ready"
                 /\ d' = d
            ELSE IF keyErr # Nil
            THEN /\ hist' = <<Event("GenerateSSHKey", "", Nil),
                              Event("SSHKeys.Create", "", keyErr)>>
                 /\ ret' = Return("Create", keyErr, "")
                 /\ pc' = "ready"
                 /\ d' = d
            ELSE /\ hist' = <<Event("GenerateSSHKey", "", Nil),
                              Event("SSHKeys.Create", "", Nil)>>
                 /\ ret' = NoReturn
                 /\ pc' = "createDevice"
                 /\ d' = StoreKeyID(d, "key-1")
    /\ gets' = 0
    /\ slept' = 0
    /\ UNCHANGED <<newDevice, devState, catalog, env, createRequest>>

\* DeviceCreateRequest with the facility list set even for an empty Facility.
DeviceCreateRequest_AlwaysFacility(drv) ==
    [submitted |-> TRUE,
     Facility |-> <<drv.Facility>>,
     Metro |-> drv.Metro,
     OS |-> drv.OperatingSystem,
     Plan |-> drv.Plan,
     HardwareReservationID |-> drv.HardwareReserverationID,
     BillingCycle |-> drv.BillingCycle,
     ProjectID |-> drv.ProjectID,
     SpotInstance |-> drv.SpotInstance,
     SpotPriceMax |-> drv.SpotPriceMax,
     TerminationTime |-> drv.TerminationTime,
     UserData |-> FileContents(drv.UserDataFile)]

\* Lines 968-986: the request Create builds from the record.
DeviceCreateRequest(drv) ==
    [submitted |-> TRUE,
     Facility |-> IF drv.Facility # "" THEN <<drv.Facility>> ELSE << >>,
     Metro |-> drv.Metro,
     OS |-> drv.OperatingSystem,
     Plan |-> drv.Plan,
     HardwareReservationID |-> drv.HardwareReserverationID,
     BillingCycle |-> drv.BillingCycle,
     ProjectID |-> drv.ProjectID,
     SpotInstance |-> drv.SpotInstance,
     SpotPriceMax |-> drv.SpotPriceMax,
     TerminationTime |-> drv.TerminationTime,
     UserData |-> FileContents(drv.UserDataFile)]

\* CleanupResult with 403 no longer ignored.
CleanupResult_Only404(createErr, deleteErr) ==
    IF ignoreStatusCodes(deleteErr, {StatusNotFound}) # Nil
    THEN deleteErr
    ELSE createErr

\* CleanupResult with the key deletion's error dropped.
CleanupResult_DropDeleteErr(createErr, deleteErr) == createErr

\* Lines 994-998: what Create returns when the device-create request failed
\* with createErr and the key deletion answered deleteErr.
CleanupResult(createErr, deleteErr) ==
    IF ignoreStatusCodes(deleteErr, {StatusForbidden, StatusNotFound}) # Nil
    THEN deleteErr
    ELSE createErr

\* DeviceCreateCalls with the cleanup of the key left out.
DeviceCreateCalls_NoCleanup(createErr, keyID, deleteErr) ==
    <<Event("Devices.Create", "", createErr)>>

\* Lines 989-994: the provider calls of the device-create step: the request,
\* and the deletion of the key when the request failed.
DeviceCreateCalls(createErr, keyID, deleteErr) ==
    IF createErr # Nil
    THEN <<Event("Devices.Create", "", createErr),
           Event("SSHKeys.Delete", keyID, deleteErr)>>
    ELSE <<Event("Devices.Create", "", Nil)>>

\* The device's ID is not stored.
StoreDeviceID_Dropped(drv, id) == drv

\* Line 1002: d.DeviceID = newDevice.ID
StoreDeviceID(drv, id) == [drv EXCEPT !.DeviceID = id]

\* Lines 962-1002: submit the request; on failure delete the key and return.
CreateDevice ==
    /\ pc = "createDevice"
    /\ createRequest' = DeviceCreateRequest(d)
    /\ \E createErr \in Outcomes("Devices.Create"),
          deleteErr \in Outcomes("SSHKeys.Delete") :
            /\ hist' = hist \o DeviceCreateCalls(createErr, d.SSHKeyID, deleteErr)
            /\ IF createErr # Nil
               THEN /\ ret' = Return("Create", CleanupResult(createErr, deleteErr), "")
                    /\ pc' = "ready"
                    /\ d' = d
                    /\ devState' = devState
               ELSE /\ ret' = NoReturn
                    /\ pc' = "ipPoll"
                    /\ d' = StoreDeviceID(d, "dev-1")
                    /\ devState' = "queued"
    /\ UNCHANGED <<newDevice, gets, slept, catalog, env, fileCalls>>

\* A sleep that grows with the number of polls made.
SleepSeconds_Backoff(loop, polls) ==
    IF loop = "ip" THEN IPSleepSeconds * polls ELSE ProvSleepSeconds * polls

\* Lines 1020 and 1042: the length of a loop's sleep after its polls-th poll.
SleepSeconds(loop, polls) ==
    IF loop = "ip" THEN IPSleepSeconds ELSE ProvSleepSeconds

\* AfterIPPoll with the break taken whatever the address.
AfterIPPoll_AlwaysBreak(ip) == "provPoll"

\* Where the IP loop goes after a poll that left the record with address ip.
AfterIPPoll(ip) == IF ip # "" THEN "provPoll" ELSE "ipSleep"

\* Lines 1004-1019: one round of the IP loop up to its break.
CreateIPPoll ==
    /\ pc = "ipPoll"
    /\ gets' = Min(gets + 1, MaxPolls)
    /\ \E getErr \in Outcomes("Devices.Get"),
          s \in DevSucc(devState),
          network \in NetworkAnswers :
            /\ devState' = s
            /\ IF getErr # Nil
               THEN /\ newDevice' = NoDevice
                    /\ ret' = Return("Create", getErr, "")
                    /\ pc' = "ready"
                    /\ UNCHANGED <<d, hist>>
               ELSE /\ newDevice' = [ID |-> d.DeviceID, State |-> s, Network |-> network]
                    /\ d' = [d EXCEPT !.IPAddress = IPAfter(network, d.IPAddress)]
                    /\ hist' = IF HasPublic4(network)
                               THEN hist \o <<Event("IPObserved", d'.IPAddress, Nil)>>
                               ELSE hist
                    /\ pc' = AfterIPPoll(d'.IPAddress)
                    /\ ret' = ret
    /\ UNCHANGED <<slept, catalog, env, fileCalls, createRequest>>

\* Line 1020
CreateIPSleep ==
    /\ pc = "ipSleep"
    /\ slept' = SleepSeconds("ip", gets)
    /\ pc' = "ipPoll"
    /\ UNCHANGED <<d, newDevice, devState, hist, gets, catalog, env, fileCalls, createRequest, ret>>

\* AfterProvPoll with the loop left on a failed device too.
AfterProvPoll_BreakOnFailed(s) ==
    IF s \in {"active", "failed"} THEN "waitSSH" ELSE "provSleep"

\* Where the provisioning loop goes after a poll that showed state s.
AfterProvPoll(s) == IF s = "active" THEN "waitSSH" ELSE "provSleep"

\* Lines 1029-1041: one round of the provisioning loop up to its break
\* (stage and ProvisionPer only feed the debug log).
CreateProvPoll ==
    /\ pc = "provPoll"
    /\ gets' = Min(gets + 1, MaxPolls)
    /\ \E getErr \in Outcomes("Devices.Get"),
          s \in DevSucc(devState),
          network \in NetworkAnswers :
            /\ devState' = s
            /\ IF getErr # Nil
               THEN /\ newDevice' = NoDevice
                    /\ ret' = Return("Create", getErr, "")
                    /\ pc' = "ready"
                    /\ hist' = hist
               ELSE /\ newDevice' = [ID |-> d.DeviceID, State |-> s, Network |-> network]
                    /\ hist' = IF s = "active"
                               THEN hist \o <<Event("ActiveObserved", s, Nil)>>
                               ELSE hist
                    /\ pc' = AfterProvPoll(s)
                    /\ ret' = ret
    /\ UNCHANGED <<d, slept, catalog, env, fileCalls, createRequest>>

\* Line 1042
CreateProvSleep ==
    /\ pc = "provSleep"
    /\ slept' = SleepSeconds("provisioning", gets)
    /\ pc' = "provPoll"
    /\ UNCHANGED <<d, newDevice, devState, hist, gets, catalog, env, fileCalls, createRequest, ret>>

\* The wait for SSH that never comes back.
CreateWaitSSH_Hangs == pc = "waitSSH" /\ UNCHANGED vars

\* Lines 1045-1052
CreateWaitSSH ==
    /\ pc = "waitSSH"
    /\ \E sshErr \in LocalOutcomes("WaitForSSH") :
            /\ hist' = hist \o <<Event("WaitForSSH", "", sshErr)>>
            /\ ret' = Return("Create", sshErr, "")
    /\ pc' = "ready"
    /\ UNCHANGED <<d, newDevice, devState, gets, slept, catalog, env, fileCalls, createRequest>>

Create ==
    \/ CreateStart
    \/ CreateDevice
    \/ CreateIPPoll
    \/ CreateIPSleep
    \/ CreateProvPoll
    \/ CreateProvSleep
    \/ CreateWaitSSH

----------------------------------------------------------------------------
(* GetState and Remove *)

\* StateOf with "powering_on" moved to the "active" case.
StateOf_PoweringOnRuns(s) ==
    CASE s \in {"queued", "provisioning"} -> "Starting"
      [] s \in {"active", "powering_on"} -> "Running"
      [] s = "powering_off" -> "Stopping"
      [] s = "inactive" -> "Stopped"
      [] OTHER -> "None"

\* The switch of GetState.
StateOf(s) ==
    CASE s \in {"queued", "provisioning", "powering_on"} -> "Starting"
      [] s = "active" -> "Running"
      [] s = "powering_off" -> "Stopping"
      [] s = "inactive" -> "Stopped"
      [] OTHER -> "None"

\* Between operations the device may have been power-cycled, reinstalled or
\* deleted, so the state a later Devices.Get shows is any state.
GetState ==
    /\ pc = "ready"
    /\ \E getErr \in Outcomes("Devices.Get") :
            /\ hist' = <<Event("Devices.Get", d.DeviceID, getErr)>>
            /\ IF getErr # Nil
               THEN /\ newDevice' = NoDevice
                    /\ ret' = Return("GetState", getErr, "Error")
                    /\ devState' = devState
               ELSE \E s \in DeviceStates :
                    /\ newDevice' = [ID |-> d.DeviceID, State |-> s, Network |-> << >>]
                    /\ ret' = Return("GetState", Nil, StateOf(s))
                    /\ devState' = s
    /\ gets' = 1
    /\ fileCalls' = << >>
    /\ UNCHANGED <<d, pc, slept, catalog, env, createRequest>>

\* RemoveGoesOn with no status ignored.
RemoveGoesOn_OnlyOnSuccess(keyErr) == keyErr = Nil

\* Whether Remove goes on to the device after the key deletion answered keyErr.
RemoveGoesOn(keyErr) ==
    ignoreStatusCodes(keyErr, {StatusForbidden, StatusNotFound}) = Nil

\* Remove that forgets the IDs of what it deleted.
Remove_ClearsIDs ==
    /\ pc = "ready"
    /\ \E keyErr \in Outcomes("SSHKeys.Delete"),
          devErr \in Outcomes("Devices.Delete") :
            IF ~RemoveGoesOn(keyErr)
            THEN /\ hist' = <<Event("SSHKeys.Delete", d.SSHKeyID, keyErr)>>
                 /\ ret' = Return("Remove", keyErr, "")
            ELSE /\ hist' = <<Event("SSHKeys.Delete", d.SSHKeyID, keyErr),
                              Event("Devices.Delete", d.DeviceID, devErr)>>
                 /\ ret' = Return("Remove",
                                  ignoreStatusCodes(devErr, {StatusForbidden, StatusNotFound}),
                                  "")
    /\ d' = [d EXCEPT !.DeviceID = "", !.SSHKeyID = ""]
    /\ gets' = 0
    /\ fileCalls' = << >>
    /\ UNCHANGED <<pc, newDevice, devState, slept, catalog, env, createRequest>>

Remove ==
    /\ pc = "ready"
    /\ \E keyErr \in Outcomes("SSHKeys.Delete"),
          devErr \in Outcomes("Devices.Delete") :
            IF ~RemoveGoesOn(keyErr)
            THEN /\ hist' = <<Event("SSHKeys.Delete", d.SSHKeyID, keyErr)>>
                 /\ ret' = Return("Remove", keyErr, "")
            ELSE /\ hist' = <<Event("SSHKeys.Delete", d.SSHKeyID, keyErr),
                              Event("Devices.Delete", d.DeviceID, devErr)>>
                 /\ ret' = Return("Remove",
                                  ignoreStatusCodes(devErr, {StatusForbidden, StatusNotFound}),
                                  "")
    /\ gets' = 0
    /\ fileCalls' = << >>
    /\ UNCHANGED <<d, pc, newDevice, devState, slept, catalog, env, createRequest>>

----------------------------------------------------------------------------
(* Start, Stop, Restart, Kill; GetIP, GetURL, GetSSHHostname *)

\* The provider call of a power operation, with Kill rebooting the device.
PowerCallOf_KillReboots(op) ==
    CASE op = "Start" -> "Devices.PowerOn"
      [] op = "Stop" -> "Devices.PowerOff"
      [] OTHER -> "Devices.Reboot"

\* The provider call Start, Stop, Restart and Kill make.
PowerCallOf(op) ==
    CASE op = "Start" -> "Devices.PowerOn"
      [] op \in {"Stop", "Kill"} -> "Devices.PowerOff"
      [] OTHER -> "Devices.Reboot"

\* One call for DeviceID; its error is what the operation returns.
PowerOperation(op) ==
    /\ pc = "ready"
    /\ \E err \in Outcomes(PowerCallOf(op)) :
            /\ hist' = <<Event(PowerCallOf(op), d.DeviceID, err)>>
            /\ ret' = Return(op, err, "")
    /\ newDevice' = NoDevice
    /\ gets' = 0
    /\ slept' = 0
    /\ fileCalls' = << >>
    /\ UNCHANGED <<d, pc, devState, catalog, env, createRequest>>

Start == PowerOperation("Start")

Stop == PowerOperation("Stop")

Restart == PowerOperation("Restart")

Kill == PowerOperation("Kill")

\* GetIP: the recorded address, or an error when none is recorded.
GetIPResult(drv) ==
    IF drv.IPAddress = ""
    THEN [err |-> PlainError("IP address is not set"), val |-> ""]
    ELSE [err |-> Nil, val |-> drv.IPAddress]

\* GetURL giving the bare address.
GetURLResult_BareAddress(drv) == GetIPResult(drv)

\* GetURL: GetIP's error, or the address formatted as "tcp://%s:2376".
GetURLResult(drv) ==
    LET r == GetIPResult(drv)
    IN  IF r.err # Nil
        THEN [err |-> r.err, val |-> ""]
        ELSE [err |-> Nil, val |-> "tcp://" \o r.val \o ":2376"]

\* An operation that asks the provider nothing.
LocalOperation(op, r) ==
    /\ pc = "ready"
    /\ hist' = << >>
    /\ ret' = Return(op, r.err, r.val)
    /\ newDevice' = NoDevice
    /\ gets' = 0
    /\ slept' = 0
    /\ fileCalls' = << >>
    /\ UNCHANGED <<d, pc, devState, catalog, env, createRequest>>

GetIP == LocalOperation("GetIP", GetIPResult(d))

GetURL == LocalOperation("GetURL", GetURLResult(d))

GetSSHHostname == LocalOperation("GetSSHHostname", GetIPResult(d))

----------------------------------------------------------------------------

Next ==
    \/ SetConfigFromFlags
    \/ PreCreateCheck
    \/ Create
    \/ GetState
    \/ Start
    \/ Stop
    \/ Restart
    \/ Kill
    \/ GetIP
    \/ GetURL
    \/ GetSSHHostname
    \/ Remove

Spec == Init /\ [][Next]_vars

\* SetConfigFromFlags taken alone, over all its inputs.
ConfigNext == SetConfigFromFlags

ConfigSpec == ConfigInit /\ [][ConfigNext]_vars

\* ignoreStatusCodes taken alone: the errors and code lists it is applied to.
IgnoredCodeLists == SUBSET {0, StatusForbidden, StatusNotFound, 500}

ErrorInputs ==
    {Nil} \cup UNION { {ErrorResponse(call, 0)} \cup Failures(call) :
                        call \in {"SSHKeys.Delete", "Devices.Delete"} }

IgnoreInit ==
    InitWith({CHOOSE e \in FlowEnvs : TRUE},
             {[os |-> << >>, metros |-> << >>, facilities |-> << >>]})

IgnoreStatusCodesCall ==
    /\ \E err \in ErrorInputs, codes \in IgnoredCodeLists :
            /\ hist' = <<Event("ignoreStatusCodes", codes, err)>>
            /\ ret' = Return("ignoreStatusCodes", ignoreStatusCodes(err, codes), "")
    /\ UNCHANGED <<d, pc, newDevice, devState, gets, slept, catalog, env, fileCalls,
                   createRequest>>

IgnoreNext == IgnoreStatusCodesCall

IgnoreSpec == IgnoreInit /\ [][IgnoreNext]_vars

\* Create is a running function: its next step is always taken.
FairSpec == Spec /\ WF_vars(Create)

----------------------------------------------------------------------------
(* What the properties below read from the history *)

EventNames(h) == [i \in 1..Len(h) |-> h[i].ev]

Occurrences(h, ev) == {i \in 1..Len(h) : h[i].ev = ev}

Happened(ev) == Occurrences(hist, ev) # {}

Ignored403or404(e) ==
    e.kind = "ErrorResponse" /\ e.hasResp /\ e.code \in {403, 404}

CreateReturned == pc = "ready" /\ ret.op = "Create"

\* Create returned and its device-create request had failed.
DeviceCreateFailed ==
    /\ CreateReturned
    /\ \E i \in Occurrences(hist, "Devices.Create") : hist[i].err # Nil

PollingPcs == {"ipPoll", "ipSleep", "provPoll", "provSleep"}

----------------------------------------------------------------------------
(* C1 *)

\* C1: Create returns nil only after, in this order, the SSH key was
\* registered, the device-create request succeeded, a poll observed a public
\* IPv4 address, a later poll observed state "active" and the wait for SSH
\* succeeded; the wait for SSH is not started before "active" was observed and
\* the provisioning loop is not entered before an IP address is recorded.
C1_CreateOrder ==
    /\ (CreateReturned /\ ret.err = Nil) =>
          /\ EventNames(hist) = <<"GenerateSSHKey", "SSHKeys.Create", "Devices.Create",
                                  "IPObserved", "ActiveObserved", "WaitForSSH">>
          /\ \A i \in 1..Len(hist) : hist[i].err = Nil
          /\ gets >= 2
    /\ pc = "waitSSH" => Happened("ActiveObserved")
    /\ pc \in {"provPoll", "provSleep", "waitSSH"} =>
          d.IPAddress # "" /\ Happened("IPObserved")

C1_Witness == CreateReturned /\ ret.err = Nil /\ d.IPAddress = "147.75.0.2"

----------------------------------------------------------------------------
(* C2 *)

\* One step of a polling loop: a failing Devices.Get ends Create with that
\* error, a poll showing what the loop waits for ends the loop, and any other
\* poll is followed by the loop's sleep and the next poll.
PollingStep ==
    /\ pc = "ipPoll" =>
          \/ newDevice' = NoDevice /\ pc' = "ready"
                /\ ret' \in {Return("Create", e, "") : e \in Failures("Devices.Get")}
          \/ newDevice' # NoDevice /\ HasPublic4(newDevice'.Network) /\ pc' = "provPoll"
          \/ newDevice' # NoDevice /\ ~HasPublic4(newDevice'.Network) /\ pc' = "ipSleep"
    /\ pc = "ipSleep" => pc' = "ipPoll"
    /\ pc = "provPoll" =>
          \/ newDevice' = NoDevice /\ pc' = "ready"
                /\ ret' \in {Return("Create", e, "") : e \in Failures("Devices.Get")}
          \/ newDevice' # NoDevice /\ newDevice'.State = "active" /\ pc' = "waitSSH"
          \/ newDevice' # NoDevice /\ newDevice'.State # "active" /\ pc' = "provSleep"
    /\ pc = "provSleep" => pc' = "provPoll"

\* C2 as stated: the loops end on the IP address, on "active" and on the first
\* failing Devices.Get, and once the device has settled in a terminal state
\* ("active" or not) Create leaves its polling loops.
C2_Original ==
    /\ [][PollingStep]_vars
    /\ (pc \in PollingPcs /\ devState \in TerminalStates) ~> (pc \notin PollingPcs)

\* C2 amended: the IP loop ends as soon as a poll shows a public IPv4
\* address, the provisioning loop as soon as a poll shows "active", both at
\* the first failing Devices.Get; every other successful poll, one showing a
\* device settled in "failed" included, is followed by a sleep and the next poll.
C2_PollingEnds == [][PollingStep]_vars

\* Create still polling a device that has settled in "failed".
C2_Witness ==
    pc = "provSleep" /\ devState = "failed" /\ newDevice.State = "failed"
        /\ gets = MaxPolls

----------------------------------------------------------------------------
(* C3 *)

\* C3: when the device-create request fails, Create has issued exactly one
\* SSHKeys.Delete, for the key just registered and stored in SSHKeyID, after
\* the failed request, has issued no Devices.Get, leaves DeviceID unset and
\* returns a non-nil error; a 403 or 404 answer to the delete is no cleanup
\* failure: Create then returns the device-create error.
C3_CleanupOnCreateFailure ==
    DeviceCreateFailed =>
        /\ EventNames(hist) = <<"GenerateSSHKey", "SSHKeys.Create", "Devices.Create",
                                "SSHKeys.Delete">>
        /\ hist[2].err = Nil
        /\ d.SSHKeyID = "key-1"
        /\ hist[4].arg = d.SSHKeyID
        /\ gets = 0
        /\ d.DeviceID = ""
        /\ ret.err # Nil
        /\ Ignored403or404(hist[4].err) => ret.err = hist[3].err

C3_Witness ==
    DeviceCreateFailed /\ Len(hist) = 4 /\ hist[4].err = ErrorResponse("SSHKeys.Delete", 403)

----------------------------------------------------------------------------
(* C4 *)

\* C4 as stated: whenever the device-create request fails, Create returns
\* the device-create error, whatever the key deletion answered.
C4_Original == DeviceCreateFailed => ret.err = hist[3].err

\* C4 amended: when the device-create request fails, Create returns the
\* device-create error if the key deletion succeeded or was answered 403 or
\* 404, and the key deletion's error otherwise.
C4_ReturnedError ==
    DeviceCreateFailed =>
        ret.err = IF hist[4].err = Nil \/ Ignored403or404(hist[4].err)
                  THEN hist[3].err
                  ELSE hist[4].err

C4_Witness ==
    DeviceCreateFailed /\ Len(hist) = 4
        /\ hist[4].err = ErrorResponse("SSHKeys.Delete", 500)
        /\ ret.err = hist[4].err

----------------------------------------------------------------------------
(* C5 *)

KeyRegistered ==
    \E i \in Occurrences(hist, "SSHKeys.Create") : hist[i].err = Nil

\* C5 as stated: whenever Create returns an error after the SSH key was
\* registered, it has attempted to delete that key.
C5_Original ==
    (CreateReturned /\ ret.err # Nil /\ KeyRegistered) => Happened("SSHKeys.Delete")

\* C5 amended: when Create returns an error after the SSH key was
\* registered, it has attempted to delete that key exactly when the
\* device-create request failed; after a failed Devices.Get in either polling
\* loop or a failed wait for SSH it has issued no SSHKeys.Delete, and SSHKeyID
\* still names the key.
C5_CleanupOnlyOnCreateFailure ==
    (CreateReturned /\ ret.err # Nil /\ KeyRegistered) =>
        /\ Happened("SSHKeys.Delete") <=> DeviceCreateFailed
        /\ Cardinality(Occurrences(hist, "SSHKeys.Delete")) <= 1
        /\ d.SSHKeyID = "key-1"

\* Create returned the error of a failed wait for SSH, the key left alone.
C5_Witness ==
    /\ CreateReturned
    /\ ret.err = PlainError("WaitForSSH")
    /\ KeyRegistered
    /\ ~Happened("SSHKeys.Delete")

----------------------------------------------------------------------------
(* C6, C7 *)

RemoveReturned == pc = "ready" /\ ret.op = "Remove"

\* C6 as stated: every Remove issues one SSHKeys.Delete for SSHKeyID and then
\* one Devices.Delete for DeviceID, whatever the key deletion answered.
C6_Original ==
    RemoveReturned =>
        /\ EventNames(hist) = <<"SSHKeys.Delete", "Devices.Delete">>
        /\ hist[1].arg = d.SSHKeyID
        /\ hist[2].arg = d.DeviceID

\* C6 amended: every Remove first issues one SSHKeys.Delete for SSHKeyID; it
\* then issues one Devices.Delete for DeviceID exactly when the key deletion
\* succeeded or was answered 403 or 404, and otherwise returns the key
\* deletion's error with no device deletion issued.
C6_RemoveCalls ==
    RemoveReturned =>
        /\ Len(hist) >= 1
        /\ hist[1].ev = "SSHKeys.Delete" /\ hist[1].arg = d.SSHKeyID
        /\ IF hist[1].err = Nil \/ Ignored403or404(hist[1].err)
           THEN /\ EventNames(hist) = <<"SSHKeys.Delete", "Devices.Delete">>
                /\ hist[2].arg = d.DeviceID
           ELSE /\ Len(hist) = 1
                /\ ret.err = hist[1].err

\* Remove gave up after the key deletion failed, the device still there.
C6_Witness ==
    /\ RemoveReturned
    /\ Len(hist) = 1
    /\ hist[1].err = ErrorResponse("SSHKeys.Delete", 500)
    /\ d.DeviceID = "dev-1"

\* C7: Remove returns nil exactly when every delete call it issued succeeded
\* or was answered 403 or 404; otherwise it returns the error of the delete
\* call that failed in another way.
C7_RemoveResult ==
    RemoveReturned =>
        /\ ret.err = Nil <=>
              \A i \in 1..Len(hist) : hist[i].err = Nil \/ Ignored403or404(hist[i].err)
        /\ ret.err # Nil =>
              /\ ret.err = hist[Len(hist)].err
              /\ ~Ignored403or404(ret.err)

\* Remove returned nil over a 404 for the key and a 403 for the device.
C7_Witness ==
    /\ RemoveReturned
    /\ ret.err = Nil
    /\ Len(hist) = 2
    /\ hist[1].err = ErrorResponse("SSHKeys.Delete", 404)
    /\ hist[2].err = ErrorResponse("Devices.Delete", 403)

----------------------------------------------------------------------------
(* C8 *)

GetStateReturned == pc = "ready" /\ ret.op = "GetState"

\* C8: GetState maps queued, provisioning and powering_on to Starting,
\* active to Running, powering_off to Stopping, inactive to Stopped and every
\* other provider state to None, each with a nil error; it returns Error, with
\* a non-nil error, exactly when its Devices.Get call failed.
C8_GetStateMapping ==
    GetStateReturned =>
        /\ Len(hist) = 1 /\ hist[1].ev = "Devices.Get"
        /\ ret.err = hist[1].err
        /\ ret.val = "Error" <=> hist[1].err # Nil
        /\ hist[1].err = Nil =>
              /\ newDevice.State \in {"queued", "provisioning", "powering_on"}
                    <=> ret.val = "Starting"
              /\ newDevice.State = "active" <=> ret.val = "Running"
              /\ newDevice.State = "powering_off" <=> ret.val = "Stopping"
              /\ newDevice.State = "inactive" <=> ret.val = "Stopped"
              /\ newDevice.State \notin {"queued", "provisioning", "powering_on", "active",
                                         "powering_off", "inactive"}
                    <=> ret.val = "None"

\* GetState answered Starting for a device that is powering on.
C8_Witness ==
    GetStateReturned /\ ret.err = Nil /\ newDevice.State = "powering_on"
        /\ ret.val = "Starting"

----------------------------------------------------------------------------
(* C9, C10 *)

PreCreateCheckReturned == pc \in {"checked", "rejected"} /\ ret.op = "PreCreateCheck"

InList(a, list) == \E i \in 1..Len(list) : list[i] = a

\* C9: PreCreateCheck returns an error when Facility and Metro are both
\* non-empty, and when it returns nil exactly one of them is non-empty and the
\* provider lookup accepted it: the metro is in the metro list, the facility
\* is in the facility list or is "any".
C9_FacilityXorMetro ==
    PreCreateCheckReturned =>
        /\ (d.Facility # "" /\ d.Metro # "") => ret.err # Nil
        /\ ret.err = Nil =>
              /\ (d.Facility # "") # (d.Metro # "")
              /\ d.Metro # "" => InList(d.Metro, catalog.metros)
              /\ d.Facility # "" =>
                    d.Facility = "any" \/ InList(d.Facility, catalog.facilities)

\* PreCreateCheck accepted a facility the provider lists.
C9_Witness ==
    PreCreateCheckReturned /\ ret.err = Nil /\ d.Facility = "ewr1" /\ d.Metro = ""

\* C10: every device-create request Create submits carries exactly one of a
\* facility list and a metro code.
C10_RequestAddressing ==
    createRequest.submitted =>
        (createRequest.Facility # << >>) # (createRequest.Metro # "")

\* A request for the default metro, submitted with no facility list.
C10_Witness ==
    createRequest.submitted /\ createRequest.Metro = "dc"
        /\ createRequest.Facility = << >>

----------------------------------------------------------------------------
(* C11 *)

\* The provider lists an operating system with slug os whose distro is one of
\* the six supported ones.
SupportedOS(os) ==
    \E i \in 1..Len(catalog.os) :
        /\ catalog.os[i].Slug = os
        /\ catalog.os[i].Distro \in
              {"centos", "coreos", "debian", "opensuse", "rancher", "ubuntu"}

OSListFailed ==
    \E i \in Occurrences(hist, "OperatingSystems.List") : hist[i].err # Nil

\* C11: PreCreateCheck returns nil only if the configured operating system is
\* the slug of a listed operating system of a supported distro; when it is
\* not, or when listing the operating systems failed, PreCreateCheck returns
\* an error and has made no metro and no facility lookup.
C11_SupportedOS ==
    PreCreateCheckReturned =>
        /\ ret.err = Nil => SupportedOS(d.OperatingSystem)
        /\ (~SupportedOS(d.OperatingSystem) \/ OSListFailed) =>
              /\ ret.err # Nil
              /\ ~Happened("Metros.List")
              /\ ~Happened("Facilities.List")

\* The provider lists the configured operating system, but with a distro that
\* is not supported: PreCreateCheck stopped after the list call.
C11_Witness ==
    /\ PreCreateCheckReturned
    /\ d.OperatingSystem = "windows_2019"
    /\ ret.err # Nil
    /\ EventNames(hist) = <<"OperatingSystems.List">>
    /\ hist[1].err = Nil

----------------------------------------------------------------------------
(* C12 *)

FileCallCameOut(outcome) ==
    fileCalls # << >> /\ fileCalls[1].outcome = outcome

\* C12: when the user-data file named by UserDataFile does not exist,
\* PreCreateCheck returns an error and has made no provider call; when Create
\* cannot read the user-data file it returns an error with no key generated
\* or registered and no device-create request submitted, and Create goes on
\* only after a successful read.
C12_UserDataFile ==
    /\ (PreCreateCheckReturned /\ FileCallCameOut("notexist")) =>
          ret.err # Nil /\ hist = << >>
    /\ FileCallCameOut("failed") =>
          /\ CreateReturned
          /\ ret.err # Nil
          /\ hist = << >>
          /\ ~createRequest.submitted
          /\ d.SSHKeyID = ""
    /\ (d.UserDataFile # "" /\ (pc \in PollingPcs \cup {"createDevice", "waitSSH"}
                                \/ CreateReturned)) =>
          fileCalls # << >> /\ fileCalls[1].call = "ioutil.ReadFile"
                            /\ fileCalls[1].path = d.UserDataFile

\* Create returned because it could not read the user-data file.
C12_Witness ==
    CreateReturned /\ FileCallCameOut("failed") /\ d.UserDataFile = "cloud-init.yml"

----------------------------------------------------------------------------
(* C13 *)

KeyWasRegistered(h) ==
    \E i \in Occurrences(h, "SSHKeys.Create") : h[i].err = Nil

C13_Step ==
    /\ (pc = "checked" /\ pc' = "ready") =>
          /\ ret'.op = "Create" /\ ret'.err # Nil
          /\ d' = d
          /\ ~createRequest'.submitted
          /\ Occurrences(hist', "Devices.Create") = {}
          /\ ~KeyWasRegistered(hist')
          /\ (hist' # << >> /\ hist'[Len(hist')].err # Nil) =>
                ret'.err = hist'[Len(hist')].err
    /\ (pc = "checked" /\ pc' # "ready") =>
          /\ ~createRequest'.submitted
          /\ KeyWasRegistered(hist') /\ d'.SSHKeyID # ""
    /\ (~createRequest.submitted /\ createRequest'.submitted) =>
          KeyWasRegistered(hist) /\ d.SSHKeyID # ""

\* C13: the step of Create that submits the device-create request is taken
\* only with the key registered and its ID in SSHKeyID; when Create ends
\* before that (key generation, reading the public key or the registration
\* failed) it returns the error of the step that failed, no request was
\* submitted, and the Driver record is as it was.
C13_KeyBeforeDevice == [][C13_Step]_vars

\* The registration of the key failed: Create returned with no key ID stored
\* and no request submitted.
C13_Witness ==
    /\ CreateReturned
    /\ hist # << >> /\ hist[Len(hist)].ev = "SSHKeys.Create"
    /\ hist[Len(hist)].err # Nil /\ ret.err = hist[Len(hist)].err
    /\ d.SSHKeyID = "" /\ ~createRequest.submitted

----------------------------------------------------------------------------
(* C14 *)

PreCreateCheckStep == pc = "configured" /\ pc' \in {"checked", "rejected"}

NoLocation(drv) == drv.Metro = "" /\ drv.Facility = ""

\* What the step of PreCreateCheck did when it got to the location: Metro is
\* "dc", Facility is empty, and "dc" was looked up in the provider's metros.
DefaultMetroUsed ==
    /\ d'.Metro = "dc" /\ d'.Facility = ""
    /\ Cardinality(Occurrences(hist', "Metros.List")) = 1
    /\ Occurrences(hist', "Facilities.List") = {}
    /\ ret'.err = Nil <=>
          /\ \A i \in Occurrences(hist', "Metros.List") : hist'[i].err = Nil
          /\ InList("dc", catalog.metros)

\* The step ended at the user-data check or at the operating-system check.
EndedBeforeLocation ==
    \/ fileCalls' # << >> /\ fileCalls'[1].outcome = "notexist"
    \/ \E i \in Occurrences(hist', "OperatingSystems.List") : hist'[i].err # Nil
    \/ ~SupportedOS(d.OperatingSystem)

\* C14 as stated: PreCreateCheck called with Metro and Facility both empty
\* sets Metro to "dc", validates it against the metro list and leaves Facility
\* empty; called with either one set it changes neither.
C14_Original ==
    [][PreCreateCheckStep =>
          /\ NoLocation(d) => DefaultMetroUsed
          /\ ~NoLocation(d) => d'.Metro = d.Metro /\ d'.Facility = d.Facility]_vars

\* C14 amended: PreCreateCheck called with Metro and Facility both empty, once
\* it is past the user-data and the operating-system check, sets Metro to
\* "dc", validates it against the metro list and leaves Facility empty; when
\* it ends at one of those two checks it leaves the record as it was; and
\* called with a metro or a facility set it changes neither.
C14_DefaultMetro ==
    [][PreCreateCheckStep =>
          /\ (NoLocation(d) /\ ~EndedBeforeLocation) => DefaultMetroUsed
          /\ (NoLocation(d) /\ EndedBeforeLocation) => d' = d /\ ret'.err # Nil
          /\ ~NoLocation(d) => d'.Metro = d.Metro /\ d'.Facility = d.Facility]_vars

\* No location was given by flag, PreCreateCheck set metro "dc" and the
\* provider's metro list does not hold it.
C14_Witness ==
    /\ PreCreateCheckReturned
    /\ env.given[argMetroCode] = "" /\ env.given[argFacilityCode] = ""
    /\ d.Metro = "dc" /\ d.Facility = ""
    /\ Happened("Metros.List") /\ ~InList("dc", catalog.metros)
    /\ ret.err # Nil

----------------------------------------------------------------------------
(* C15 *)

SetConfigFromFlagsReturned == ret.op = "SetConfigFromFlags"

\* What the user gave for a flag, by flag or environment ("": nothing).
Supplied(name) == env.given[name]

\* What the config file holds, when there is one that parses.
FromFile == IF env.file.state = "ok" THEN env.file.config ELSE NoConfig

FileToken == IF FromFile.Token # "" THEN FromFile.Token ELSE FromFile.AuthToken

\* The user's value when there is one, else the config file's.
UserThenFile(name, fileValue) ==
    IF Supplied(name) # "" THEN Supplied(name) ELSE fileValue

\* C15 as stated: after SetConfigFromFlags returned nil, each of operating
\* system, auth token, project id, metro, facility and plan is the value the
\* user supplied when there is one, and the config file's value otherwise; a
\* flag's built-in default does not replace the config file's value.
C15_Original ==
    (SetConfigFromFlagsReturned /\ ret.err = Nil) =>
        /\ d.OperatingSystem = UserThenFile(argOS, FromFile.OS)
        /\ d.Plan = UserThenFile(argPlan, FromFile.Plan)
        /\ d.ProjectID = UserThenFile(argProjectID, FromFile.ProjectID)
        /\ d.Metro = UserThenFile(argMetroCode, FromFile.Metro)
        /\ d.Facility = UserThenFile(argFacilityCode, FromFile.Facility)
        /\ d.ApiKey \in {UserThenFile(argAuthToken, FileToken), Supplied(argApiKey)}

\* The config file names an operating system and a plan, the user gave
\* neither by flag, and SetConfigFromFlags left the flags' defaults in the
\* record.
C15_Witness ==
    /\ SetConfigFromFlagsReturned /\ ret.err = Nil
    /\ FromFile.OS = "debian_10" /\ Supplied(argOS) = ""
    /\ FromFile.Plan = "m3.large.x86" /\ Supplied(argPlan) = ""
    /\ d.OperatingSystem = "ubuntu_20_04" /\ d.Plan = "c3.small.x86"

----------------------------------------------------------------------------
(* C16 *)

FirstNonEmpty(seq) ==
    IF \A i \in 1..Len(seq) : seq[i] = "" THEN ""
    ELSE seq[CHOOSE i \in 1..Len(seq) :
                seq[i] # "" /\ \A j \in 1..(i - 1) : seq[j] = ""]

\* The token by the precedence: auth-token flag, the file's token, the file's
\* auth-token, the deprecated api-key flag.
TokenByPrecedence ==
    FirstNonEmpty(<<Supplied(argAuthToken), FromFile.Token, FromFile.AuthToken,
                    Supplied(argApiKey)>>)

ConfigFileRead == env.file.state \in {"missing", "ok"}

\* C16: with the config file missing or read, SetConfigFromFlags leaves in
\* ApiKey the first non-empty of the auth-token flag, the file's token, the
\* file's auth-token and the deprecated api-key flag; it returns an error
\* when all four are empty and when the resulting project id is empty, so
\* after a nil return ApiKey and ProjectID are both non-empty.
C16_TokenPrecedence ==
    (SetConfigFromFlagsReturned /\ ConfigFileRead) =>
        /\ d.ApiKey = TokenByPrecedence
        /\ TokenByPrecedence = "" => ret.err # Nil
        /\ UserThenFile(argProjectID, FromFile.ProjectID) = "" => ret.err # Nil
        /\ ret.err = Nil => d.ApiKey # "" /\ d.ProjectID # ""

\* The file's auth-token is used, and the deprecated API key given by flag is
\* ignored.
C16_Witness ==
    /\ SetConfigFromFlagsReturned /\ ret.err = Nil
    /\ Supplied(argAuthToken) = "" /\ FromFile.Token = ""
    /\ FromFile.AuthToken = "file-auth-token" /\ Supplied(argApiKey) = "flag-key"
    /\ d.ApiKey = "file-auth-token"

----------------------------------------------------------------------------
(* C17 *)

\* Every flag SetConfigFromFlags read is declared by GetCreateFlags with the
\* type it was read as.
ReadsAreDeclared ==
    \A i \in 1..Len(hist) :
        /\ hist[i].ev = "flags.String" => Declared(hist[i].arg, "string")
        /\ hist[i].ev = "flags.Bool" => Declared(hist[i].arg, "bool")

\* No config file, and a token and a project id supplied by flags.
FlagsSuffice ==
    /\ env.file.state = "missing"
    /\ Supplied(argAuthToken) # "" \/ Supplied(argApiKey) # ""
    /\ Supplied(argProjectID) # ""

\* No spot instance is requested, or its price limit is a number and its
\* termination time, if given, parses to a time after the current time.
SpotFlagsValid ==
    Supplied(argSpotInstance) = "true" =>
        /\ Supplied(argSpotPriceMax) # "" => ParseFloat(Supplied(argSpotPriceMax)).ok
        /\ Supplied(argTerminationTime) # "" =>
              LET t == strtotimeParse(Supplied(argTerminationTime), env.now1)
              IN  t.ok /\ t.val > env.now2

\* C17 as stated: every flag SetConfigFromFlags reads is declared by
\* GetCreateFlags, and with no config file it returns nil whenever a token and
\* a project id are supplied by flags.
C17_Original ==
    SetConfigFromFlagsReturned =>
        /\ ReadsAreDeclared
        /\ FlagsSuffice => ret.err = Nil

\* C17 amended: every flag SetConfigFromFlags reads is declared by
\* GetCreateFlags, and with no config file it returns nil whenever a token and
\* a project id are supplied by flags and the spot flags, if a spot instance
\* is requested, are valid; with invalid spot flags it returns an error.
C17_FlagsSuffice ==
    SetConfigFromFlagsReturned =>
        /\ ReadsAreDeclared
        /\ FlagsSuffice => (ret.err = Nil <=> SpotFlagsValid)

\* The spot branch was taken with no config file: the price limit and the
\* termination time were read, and SetConfigFromFlags returned nil.
C17_Witness ==
    /\ SetConfigFromFlagsReturned /\ ret.err = Nil
    /\ env.file.state = "missing" /\ d.SpotInstance
    /\ \E i \in 1..Len(hist) : hist[i].arg = argSpotPriceMax
    /\ \E i \in 1..Len(hist) : hist[i].arg = argTerminationTime

----------------------------------------------------------------------------
(* C18 *)

ReadingOps ==
    {"Start", "Stop", "Restart", "Kill", "GetState", "GetIP", "GetURL",
     "GetSSHHostname"}

\* The one provider call a reading operation makes, "" for none.
CallOf(op) ==
    CASE op = "Start" -> "Devices.PowerOn"
      [] op = "Stop" -> "Devices.PowerOff"
      [] op = "Kill" -> "Devices.PowerOff"
      [] op = "Restart" -> "Devices.Reboot"
      [] op = "GetState" -> "Devices.Get"
      [] OTHER -> ""

\* A step in which one of the reading operations ran.
ReadingStep == pc = "ready" /\ pc' = "ready" /\ ret'.op \in ReadingOps

\* C18: after Create, Start, Stop, Restart, Kill, GetState, GetIP, GetURL and
\* GetSSHHostname leave the Driver record as it was, whatever they return;
\* Start issues exactly one PowerOn call, Stop and Kill one PowerOff call,
\* Restart one Reboot call (and GetState one Get call), each for DeviceID, and
\* returns that call's error; the other three issue no call.
C18_ReadOnlyLifecycle ==
    [][ReadingStep =>
          /\ d' = d
          /\ CallOf(ret'.op) # "" =>
                hist' = <<Event(CallOf(ret'.op), d.DeviceID, ret'.err)>>
          /\ CallOf(ret'.op) = "" => hist' = << >>]_vars

\* Kill on a created device was answered with an error by the provider.
C18_Witness ==
    /\ pc = "ready" /\ ret.op = "Kill" /\ ret.err # Nil
    /\ d.DeviceID = "dev-1" /\ d.IPAddress # ""
    /\ hist = <<Event("Devices.PowerOff", "dev-1", ret.err)>>

----------------------------------------------------------------------------
(* C19 *)

SpotRequested == Supplied(argSpotInstance) = "true"

ParsedTime == strtotimeParse(Supplied(argTerminationTime), env.now1)

\* C19: when a spot instance is requested and a termination time is given,
\* SetConfigFromFlags returns nil only if the time parses to a second strictly
\* after the current time, and TerminationTime is then that time; a parsed
\* time equal to or before the current time is rejected with an error; and
\* with no termination time given TerminationTime is nil.
C19_FutureTermination ==
    SetConfigFromFlagsReturned =>
        /\ (SpotRequested /\ Supplied(argTerminationTime) # "") =>
              /\ ret.err = Nil =>
                    /\ ParsedTime.ok /\ ParsedTime.val > env.now2
                    /\ d.TerminationTime = [isNil |-> FALSE, unix |-> ParsedTime.val]
              /\ (ParsedTime.ok /\ ParsedTime.val <= env.now2) => ret.err # Nil
        /\ Supplied(argTerminationTime) = "" => d.TerminationTime.isNil

\* A termination time one second after the current time was accepted and
\* stored.
C19_Witness ==
    /\ SetConfigFromFlagsReturned /\ ret.err = Nil /\ SpotRequested
    /\ Supplied(argTerminationTime) = "1970-01-01 00:00:11" /\ env.now2 = 10
    /\ d.TerminationTime = [isNil |-> FALSE, unix |-> 11]

----------------------------------------------------------------------------
(* C20 *)

PollPcs == {"ipPoll", "provPoll"}

\* The poll of this step failed: Create has no device record from it.
GetFailed == pc \in PollPcs /\ newDevice' = NoDevice

C20_Step ==
    /\ pc \in PollPcs =>
          /\ gets' = Min(gets + 1, MaxPolls)
          /\ slept' = slept
          /\ pc' = "ready" <=> GetFailed
    /\ GetFailed =>
          /\ ret' \in {Return("Create", e, "") : e \in Failures("Devices.Get")}
          /\ hist' = hist
          /\ d' = d
    /\ (pc = "ipPoll" /\ ~GetFailed /\ d'.IPAddress = "") => pc' = "ipSleep"
    /\ (pc = "provPoll" /\ ~GetFailed /\ newDevice'.State # "active") =>
          pc' = "provSleep"
    /\ pc = "ipSleep" =>
          pc' = "ipPoll" /\ slept' = 1 /\ gets' = gets /\ hist' = hist
    /\ pc = "provSleep" =>
          pc' = "provPoll" /\ slept' = 10 /\ gets' = gets /\ hist' = hist

\* C20: every poll step of Create is one Devices.Get call; when it fails
\* Create returns that error at once, with no further call and the record as
\* it was; a poll that does not end its loop is followed by exactly one sleep,
\* of 1 second in the IP loop and of 10 seconds in the provisioning loop
\* however many polls were made, and then by the next poll.
C20_NoRetryFixedSleep == [][C20_Step]_vars

\* Create returned the error of a Devices.Get that followed a sleep of the
\* provisioning loop.
C20_Witness ==
    /\ CreateReturned
    /\ ret.err \in Failures("Devices.Get")
    /\ slept = 10 /\ gets >= 3
    /\ Happened("IPObserved") /\ ~Happened("ActiveObserved")

----------------------------------------------------------------------------
(* C21 *)

\* Create returned the error of a Devices.Get or of the wait for SSH.
GetOrSSHFailed ==
    /\ CreateReturned
    /\ ret.err \in Failures("Devices.Get") \cup (LocalOutcomes("WaitForSSH") \ {Nil})

\* A poll was answered with a network list holding a public IPv4 address.
IPReported == newDevice # NoDevice /\ HasPublic4(newDevice.Network)

\* The key is registered and the device-create request has succeeded.
DeviceRequested == pc = "ipPoll" /\ gets = 0

\* C21: if no Devices.Get call and not the wait for SSH fails, the provider
\* at some time answers a poll with a public IPv4 address and from some time
\* on reports state "active", then Create, once the key is registered and the
\* device-create request has succeeded, eventually returns nil.
C21_CreateReturnsNil ==
    ([]~GetOrSSHFailed /\ <>IPReported /\ <>[](devState = "active"))
        => (DeviceRequested ~> (CreateReturned /\ ret.err = Nil))

\* Create returned nil after it had slept in the provisioning loop and polled
\* again.
C21_Witness ==
    /\ CreateReturned /\ ret.err = Nil
    /\ slept = 10 /\ gets >= 3 /\ devState = "active"

----------------------------------------------------------------------------
(* C22 *)

IgnoreReturned == ret.op = "ignoreStatusCodes"

\* err is a provider error response with an HTTP response whose status is in
\* codes.
ResponseWithCodeIn(err, codes) ==
    err.kind = "ErrorResponse" /\ err.hasResp /\ err.code \in codes

\* C22: ignoreStatusCodes(err, codes...) returns nil exactly when err is nil
\* or is a provider error response with an HTTP response whose status code is
\* one of codes; otherwise it returns err itself.
C22_IgnoreStatusCodes ==
    IgnoreReturned =>
        /\ ret.err = Nil <=>
              (hist[1].err = Nil \/ ResponseWithCodeIn(hist[1].err, hist[1].arg))
        /\ ret.err # Nil => ret.err = hist[1].err

\* A provider error without an HTTP response is returned as it is, even with
\* code 0 in the list.
C22_Witness ==
    /\ IgnoreReturned
    /\ hist[1].err = ErrorResponseNoHTTP("Devices.Delete")
    /\ 0 \in hist[1].arg
    /\ ret.err = hist[1].err

----------------------------------------------------------------------------
(* C23 *)

\* An address only with a device, a device only with a key.
IdsInOrder(drv) ==
    /\ drv.IPAddress # "" => drv.DeviceID # ""
    /\ drv.DeviceID # "" => drv.SSHKeyID # ""

C23_Step ==
    /\ IdsInOrder(d) /\ IdsInOrder(d')
    /\ d'.DeviceID # d.DeviceID =>
          /\ pc = "createDevice"
          /\ hist' = hist \o <<Event("Devices.Create", "", Nil)>>
    /\ d'.IPAddress # d.IPAddress =>
          /\ pc = "ipPoll"
          /\ HasPublic4(newDevice'.Network)

\* C23: in every state the host's sequence of operations reaches from a new
\* Driver, a non-empty IPAddress comes with a non-empty DeviceID and a
\* non-empty DeviceID with a non-empty SSHKeyID; DeviceID changes only in the
\* step of Create whose device-create request succeeded, and IPAddress only in
\* a poll of Create's IP loop.
C23_IdsInCreationOrder == [][C23_Step]_vars

\* All three are recorded, and stay so through a Remove.
C23_Witness ==
    /\ RemoveReturned
    /\ d.SSHKeyID = "key-1" /\ d.DeviceID = "dev-1" /\ d.IPAddress = "147.75.0.1"

----------------------------------------------------------------------------
(* C24 *)

\* Create returns an error in this step, from a poll or from the wait for SSH.
CreateFailsLate ==
    pc \in {"ipPoll", "provPoll", "waitSSH"} /\ pc' = "ready" /\ ret'.err # Nil

RemoveStep == pc = "ready" /\ pc' = "ready" /\ ret'.op = "Remove"

\* The delete calls of the step are for the key in SSHKeyID and then, if
\* there is a second one, for the device in DeviceID.
DeletesWhatIsRecorded ==
    /\ Len(hist') \in {1, 2}
    /\ hist'[1].ev = "SSHKeys.Delete" /\ hist'[1].arg = d.SSHKeyID
    /\ Len(hist') = 2 =>
          hist'[2].ev = "Devices.Delete" /\ hist'[2].arg = d.DeviceID

\* C24 as stated: a Create that fails after the device-create request
\* succeeded leaves the IDs of the created key and device in the record; a
\* following Remove issues its two delete calls for them; Remove changes none
\* of DeviceID, SSHKeyID, IPAddress.
C24_Original ==
    [][/\ CreateFailsLate => d'.SSHKeyID = "key-1" /\ d'.DeviceID = "dev-1"
       /\ RemoveStep =>
             /\ DeletesWhatIsRecorded /\ Len(hist') = 2
             /\ d'.DeviceID = d.DeviceID /\ d'.SSHKeyID = d.SSHKeyID
             /\ d'.IPAddress = d.IPAddress]_vars

\* C24 amended: a Create that fails after the device-create request succeeded
\* leaves the IDs of the created key and device in the record; a following
\* Remove issues the key deletion for SSHKeyID and, exactly when that was
\* answered nil, 403 or 404, the device deletion for DeviceID; Remove changes
\* none of DeviceID, SSHKeyID, IPAddress.
C24_TeardownAfterFailure ==
    [][/\ CreateFailsLate => d'.SSHKeyID = "key-1" /\ d'.DeviceID = "dev-1"
       /\ RemoveStep =>
             /\ DeletesWhatIsRecorded
             /\ Len(hist') = 2 <=>
                   (hist'[1].err = Nil \/ Ignored403or404(hist'[1].err))
             /\ d'.DeviceID = d.DeviceID /\ d'.SSHKeyID = d.SSHKeyID
             /\ d'.IPAddress = d.IPAddress]_vars

\* Create failed in the IP loop (no address recorded), and Remove then asked
\* for the deletion of the key and of the device it had created.
C24_Witness ==
    /\ RemoveReturned
    /\ d.IPAddress = "" /\ d.DeviceID = "dev-1" /\ d.SSHKeyID = "key-1"
    /\ Len(hist) = 2 /\ hist[1].arg = "key-1" /\ hist[2].arg = "dev-1"

----------------------------------------------------------------------------
(* C25 *)

\* The provider answered every delete call of the step with 403 or 404.
AnsweredGone == \A i \in 1..Len(hist') : Ignored403or404(hist'[i].err)

\* The step issued the calls the Remove before it had issued.
SameCalls ==
    /\ Len(hist') = Len(hist)
    /\ \A i \in 1..Len(hist) : hist'[i].ev = hist[i].ev /\ hist'[i].arg = hist[i].arg

\* C25: a Remove that follows a Remove that returned nil, and whose delete
\* calls the provider answers with 403 or 404, returns nil too and issues the
\* same two delete calls, for the same key and device.
C25_RemoveIdempotent ==
    [][(RemoveStep /\ RemoveReturned /\ ret.err = Nil /\ AnsweredGone) =>
          /\ ret'.err = Nil
          /\ Len(hist') = 2 /\ SameCalls
          /\ d' = d]_vars

\* A Remove to which the provider answered 404 for the key and for the
\* device, as it does once both are deleted, returned nil.
C25_Witness ==
    /\ RemoveReturned /\ ret.err = Nil /\ Len(hist) = 2
    /\ hist[1].err = ErrorResponse("SSHKeys.Delete", 404)
    /\ hist[2].err = ErrorResponse("Devices.Delete", 404)
    /\ d.DeviceID = "dev-1" /\ d.IPAddress # ""

----------------------------------------------------------------------------
(* C26 *)

\* The positions of the public IPv4 entries of a network list.
Public4At(network) ==
    {i \in 1..Len(network) : network[i].Public /\ network[i].AddressFamily = 4}

\* A step of the IP loop whose Devices.Get succeeded.
IPPolled == pc = "ipPoll" /\ newDevice' # NoDevice

\* What one successful poll of the IP loop does to IPAddress.
C26_Step ==
    /\ IPPolled =>
         LET network == newDevice'.Network
             at == Public4At(network)
         IN  /\ at = {} => d'.IPAddress = d.IPAddress
             /\ at # {} =>
                  d'.IPAddress =
                      network[CHOOSE i \in at : \A j \in at : j <= i].Address
             /\ \A i \in 1..Len(network) :
                  (~network[i].Public \/ network[i].AddressFamily # 4)
                      => (d'.IPAddress # network[i].Address
                            \/ d'.IPAddress = d.IPAddress)
    /\ ~IPPolled => d'.IPAddress = d.IPAddress

\* C26: IPAddress changes only in a successful poll of Create's IP loop, and
\* then to the address of the last public IPv4 entry of the polled network
\* list; a list without such an entry leaves it unchanged, and the address of
\* a private or an IPv6 entry is never recorded.
C26_RecordedIP == [][C26_Step]_vars

\* The poll showed two public IPv4 entries and the second was recorded.
C26_Witness ==
    /\ pc = "provPoll" /\ newDevice # NoDevice
    /\ newDevice.Network = <<Pub4("147.75.0.1"), Pub4("147.75.0.2")>>
    /\ d.IPAddress = "147.75.0.2"

----------------------------------------------------------------------------
(* C27 *)

\* What GetIP, GetSSHHostname and GetURL returned, against the record.
LocalResults ==
    /\ ret.op \in {"GetIP", "GetSSHHostname"} =>
         /\ ret.err # Nil <=> d.IPAddress = ""
         /\ ret.err = Nil => ret.val = d.IPAddress
    /\ ret.op = "GetURL" =>
         /\ ret.err = Nil <=> d.IPAddress # ""
         /\ ret.err = Nil => ret.val = "tcp://" \o d.IPAddress \o ":2376"

\* A Create that returned nil has recorded an address.
CreateLeavesIP == (CreateReturned /\ ret.err = Nil) => d.IPAddress # ""

\* A recorded address is never cleared.
IPStays == d.IPAddress # "" => d'.IPAddress # ""

\* C27: GetIP and GetSSHHostname fail exactly when IPAddress is empty and
\* otherwise return it; GetURL succeeds exactly when IPAddress is not empty
\* and then returns "tcp://<IPAddress>:2376"; a Create that returned nil
\* leaves an address that no later step clears, so all three succeed after it.
C27_LocalOperations == [](LocalResults /\ CreateLeavesIP) /\ [][IPStays]_vars

\* GetURL succeeded on a record whose Create had recorded an address.
C27_Witness ==
    /\ ret.op = "GetURL" /\ ret.err = Nil
    /\ ret.val = "tcp://147.75.0.1:2376" /\ d.IPAddress = "147.75.0.1"

----------------------------------------------------------------------------
(* C28 *)

\* The errors of the spot branch, lines 880, 891 and 894.
SpotErrors ==
    {PlainError("strconv.ParseFloat"), PlainError("strtotime.Parse"),
     PlainError("termination time cannot be in the past")}

\* SetConfigFromFlags read the flag name.
WasRead(name) == \E i \in 1..Len(hist) : hist[i].arg = name

\* No spot instance requested: the spot flags are not read, the two spot
\* fields stay as NewDriver left them, and no error comes from them.
SpotOffIgnored ==
    ~SpotRequested =>
        /\ d.SpotPriceMax = NewDriver.SpotPriceMax
        /\ d.TerminationTime = NewDriver.TerminationTime
        /\ ~WasRead(argSpotPriceMax) /\ ~WasRead(argTerminationTime)
        /\ ret.err \notin SpotErrors

\* A spot instance requested with a price limit that is no number: an error.
BadPriceFails ==
    (SpotRequested /\ Supplied(argSpotPriceMax) # ""
        /\ ~ParseFloat(Supplied(argSpotPriceMax)).ok) => ret.err # Nil

\* C28 as stated: with the spot-instance flag false the spot fields stay
\* unchanged and no error comes from the spot flags; with it true and no price
\* limit given SpotPriceMax is -1; with it true and a price limit that is no
\* number SetConfigFromFlags returns an error.
C28_Original ==
    SetConfigFromFlagsReturned =>
        /\ SpotOffIgnored
        /\ (SpotRequested /\ Supplied(argSpotPriceMax) = "") => d.SpotPriceMax = -1
        /\ BadPriceFails

\* C28 amended: as stated, but SpotPriceMax is -1 only when SetConfigFromFlags
\* got as far as reading the spot-instance flag; when it returned before, at
\* the config file or at the missing token, SpotPriceMax is unchanged.
C28_SpotSettings ==
    SetConfigFromFlagsReturned =>
        /\ SpotOffIgnored
        /\ (SpotRequested /\ Supplied(argSpotPriceMax) = "") =>
              d.SpotPriceMax = IF WasRead(argSpotInstance)
                               THEN -1 ELSE NewDriver.SpotPriceMax
        /\ BadPriceFails

\* A spot instance was requested with no price limit, and SpotPriceMax is -1.
C28_Witness ==
    /\ SetConfigFromFlagsReturned /\ SpotRequested
    /\ Supplied(argSpotPriceMax) = "" /\ WasRead(argSpotPriceMax)
    /\ d.SpotInstance /\ d.SpotPriceMax = -1

\* No spot instance was requested, a price limit and a termination time were
\* given, and SetConfigFromFlags returned nil with both fields untouched.
SpotOffReached ==
    /\ SetConfigFromFlagsReturned /\ ~SpotRequested /\ ret.err = Nil
    /\ Supplied(argSpotPriceMax) = "cheap" /\ Supplied(argTerminationTime) # ""
    /\ d.SpotPriceMax = 0 /\ d.TerminationTime = NoTime

----------------------------------------------------------------------------
(* C29 *)

\* The config file exists and cannot be read or cannot be parsed.
ConfigFileBad == env.file.state \in {"unreadable", "malformed"}

\* C29: with a config file that exists and cannot be read or parsed,
\* SetConfigFromFlags returns the error of the read or of the parse, reads no
\* flag, and leaves the record as NewDriver built it.
C29_BadConfigFile ==
    (SetConfigFromFlagsReturned /\ ConfigFileBad) =>
        /\ ret.err \in {PlainError("ioutil.ReadFile config"),
                        PlainError("yaml.Unmarshal")}
        /\ hist = << >>
        /\ d = NewDriver

\* A config file with settings in it did not parse while a token and a
\* project id were given by flag: an error, and the record untouched.
C29_Witness ==
    /\ SetConfigFromFlagsReturned /\ env.file.state = "malformed"
    /\ env.file.config.ProjectID # ""
    /\ Supplied(argAuthToken) # "" /\ Supplied(argProjectID) # ""
    /\ ret.err = PlainError("yaml.Unmarshal") /\ d = NewDriver

----------------------------------------------------------------------------
(* C30 *)

\* The SSH user the claim gives for the operating system in the record.
UserByOS ==
    IF Contains(d.OperatingSystem, "rancher") THEN "rancher"
    ELSE IF Contains(d.OperatingSystem, "coreos") THEN "core"
    ELSE NewDriver.SSHUser

\* SetConfigFromFlags got past the config file and the token check.
TokenFound == ~ConfigFileBad /\ d.ApiKey # ""

\* C30 as stated: after SetConfigFromFlags the SSH user is "rancher" when the
\* operating system in the record contains "rancher", otherwise "core" when it
\* contains "coreos", and otherwise what it was.
C30_Original == SetConfigFromFlagsReturned => d.SSHUser = UserByOS

\* C30 amended: that holds when SetConfigFromFlags got past the config file
\* and the token check, whatever it returned after them; when it returned at
\* one of the two, the SSH user is what it was whatever the operating system.
C30_SSHUser ==
    SetConfigFromFlagsReturned =>
        d.SSHUser = IF TokenFound THEN UserByOS ELSE NewDriver.SSHUser

\* An operating system name with both "rancher" and "coreos" in it got the
\* SSH user "rancher".
C30_Witness ==
    /\ SetConfigFromFlagsReturned /\ ret.err = Nil
    /\ d.OperatingSystem = "rancher_coreos" /\ d.SSHUser = "rancher"

\* The operating systems for which each outcome of the selection is reached.
CoreReached ==
    SetConfigFromFlagsReturned /\ d.OperatingSystem = "coreos_stable" /\ d.SSHUser = "core"

UnchangedReached ==
    /\ SetConfigFromFlagsReturned /\ ret.err = Nil
    /\ d.OperatingSystem = defaultOS /\ d.SSHUser = ""

====
